---- MODULE Spec2Model ----
(***************************************************************************)
(* Model of src/app_eng_g.py: a Streamlit page over a Google spreadsheet.  *)
(*                                                                         *)
(* The spreadsheet is the only durable state: two single-column option     *)
(* sheets ("chips", "locations") and the "items" sheet.  Every sheet is a  *)
(* sequence of rows whose first row is the header, so that the index of a  *)
(* row is its spreadsheet row number.  A browser session runs main() from  *)
(* top to bottom on every user action; each remote call of a handler is    *)
(* one step, so two sessions interleave between remote calls.              *)
(*                                                                         *)
(* Three specifications:                                                   *)
(*   SpecOptions  the option store (get_options, add_new_option);          *)
(*   Spec         the items store under every interleaving of sessions;   *)
(*   SpecSerial   the items store when no session steps while another     *)
(*                session is inside its Save loop.                         *)
(* The search box (lines 172-175) is left empty: the grid holds every row. *)
(***************************************************************************)
EXTENDS Integers, Sequences, FiniteSets, TLC

VARIABLES
    opts,      \* option sheet name -> its column A, header first
    cache,     \* session -> option sheet name -> st.session_state list, or Absent
    opc,       \* session -> position inside the "Add Chip"/"Add Location" handler
    ocall,     \* session -> its latest add_new_option call: sheet, value, return
    olast,     \* the latest option-store step (what it saw, what it answered)
    items,     \* the items sheet: rows of 8 cells, header first
    now,       \* the wall clock, in ticks
    pc,        \* session -> position inside main()
    grid,      \* session -> edited_df of the running Save
    idx,       \* session -> index of the grid row the Save loop is at
    rownum,    \* session -> cell.row remembered between find and write/delete
    wake,      \* session -> clock value at which time.sleep(1) returns
    base,      \* session -> the items sheet when get_all_data loaded the grid
    last       \* the latest items-store step (sheet before it, arguments)

optVars == <<opts, cache, opc, ocall, olast>>
itemVars == <<items, now, pc, grid, idx, rownum, wake, base, last>>
vars == <<opts, cache, opc, ocall, olast, items, now, pc, grid, idx, rownum, wake, base, last>>

Sessions == {"s1", "s2"}

(***************************************************************************)
(* Bounds of the model.                                                    *)
(***************************************************************************)
MaxOpts == 2          \* option values a sheet may hold before a new add starts
MaxRows == 2          \* data rows the items sheet may hold before a Submit
MaxNow == 2           \* last clock tick
TicksPerSecond == 2   \* clock ticks in one second

(***************************************************************************)
(* Options store                                                           *)
(***************************************************************************)
OptSheets == {"chips", "locations"}

\* The text of cell A1 of an option sheet (get_options skips it as the header).
OptHeader(sheet_name) == IF sheet_name = "chips" THEN "chip_code" ELSE "location"

\* What the user may type into "New Chip Code" / "New Location".
OptInputs(sheet_name) == {"", "v1", "v2", OptHeader(sheet_name)}

Absent == <<"absent">>

InSeq(v, seq) == \E i \in 1..Len(seq) : seq[i] = v

CountOf(v, seq) == Cardinality({i \in 1..Len(seq) : seq[i] = v})

\* ws.col_values(1) of a single-column sheet.
ColValues(ws) == ws

\* get_options: the column without its first cell; [] when the call raises.
GetOptions(ws, ok) ==
    IF ~ok THEN <<>>
    ELSE LET values == ColValues(ws)
         IN IF Len(values) > 1 THEN Tail(values) ELSE <<>>

\* Mutant of AppendOptionRow: an append that skips a value already stored.
AppendOptionRowIfAbsent(ws, value) ==
    IF InSeq(value, ws) THEN ws ELSE Append(ws, value)

\* ws.append_row([value])
AppendOptionRow(ws, value) == Append(ws, value)

OptionsLoaded(s) == \A n \in OptSheets : cache[s][n] # Absent

\* Lines 100-103: the first run of a session loads chips, then locations.
LoadOptions(s, n, ok) ==
    /\ opc[s] = "idle"
    /\ cache[s][n] = Absent
    /\ n = "locations" => cache[s]["chips"] # Absent
    /\ cache' = [cache EXCEPT ![s][n] = GetOptions(opts[n], ok)]
    /\ UNCHANGED <<opts, opc, ocall, olast>>
    /\ UNCHANGED itemVars

\* "Add Chip" / "Add Location" clicked: add_new_option up to its return False
\* or up to the append it is about to make.
AddOptionCheck(s, n, value) ==
    /\ opc[s] = "idle"
    /\ OptionsLoaded(s)
    /\ Len(opts[n]) <= MaxOpts
    /\ IF value = ""
       THEN UNCHANGED optVars
       ELSE LET existing == ColValues(opts[n])
            IN IF InSeq(value, existing)
               THEN /\ ocall' = [ocall EXCEPT ![s] = [sheet |-> n, value |-> value, ret |-> "False"]]
                    /\ olast' = [op |-> "check", sheet |-> n, value |-> value,
                                 pre |-> opts[n], ret |-> "False"]
                    /\ UNCHANGED <<opts, cache, opc>>
               ELSE /\ ocall' = [ocall EXCEPT ![s] = [sheet |-> n, value |-> value, ret |-> "pending"]]
                    /\ olast' = [op |-> "check", sheet |-> n, value |-> value,
                                 pre |-> opts[n], ret |-> "pending"]
                    /\ opc' = [opc EXCEPT ![s] = "append"]
                    /\ UNCHANGED <<opts, cache>>
    /\ UNCHANGED itemVars

\* add_new_option, line 40-41: the append and return True.
AddOptionAppend(s) ==
    /\ opc[s] = "append"
    /\ LET n == ocall[s].sheet
           value == ocall[s].value
       IN /\ opts' = [opts EXCEPT ![n] = AppendOptionRow(opts[n], value)]
          /\ ocall' = [ocall EXCEPT ![s].ret = "True"]
          /\ olast' = [op |-> "append", sheet |-> n, value |-> value,
                       pre |-> opts[n], ret |-> "True"]
    /\ opc' = [opc EXCEPT ![s] = "reload"]
    /\ UNCHANGED cache
    /\ UNCHANGED itemVars

\* Lines 145/156: session_state is refreshed with get_options, then st.rerun().
ReloadOptions(s, ok) ==
    /\ opc[s] = "reload"
    /\ cache' = [cache EXCEPT ![s][ocall[s].sheet] = GetOptions(opts[ocall[s].sheet], ok)]
    /\ opc' = [opc EXCEPT ![s] = "idle"]
    /\ UNCHANGED <<opts, ocall, olast>>
    /\ UNCHANGED itemVars

NoCall == [sheet |-> "", value |-> "", ret |-> "none"]

OptInit ==
    /\ opts = [n \in OptSheets |-> <<OptHeader(n)>>]
    /\ cache = [s \in Sessions |-> [n \in OptSheets |-> Absent]]
    /\ opc = [s \in Sessions |-> "idle"]
    /\ ocall = [s \in Sessions |-> NoCall]
    /\ olast = [op |-> "none", sheet |-> "", value |-> "", pre |-> <<>>, ret |-> "none"]

(***************************************************************************)
(* Items store: cell formats and conversions                               *)
(***************************************************************************)
\* Row 1 of the items sheet; get_all_records uses it as the column names.
Header == <<"id", "date", "item_name", "item_id", "keeper", "chip_code", "location", "note">>

NumCols == Len(Header)

BlankRow == [c \in 1..NumCols |-> ""]

\* Values of the grid's date column: a datetime.date, pandas' NaT, or None
\* (a date cell the user cleared).
DateOf(y, m, d) == [k |-> "date", y |-> y, m |-> m, d |-> d]
NaT == [k |-> "NaT", y |-> 0, m |-> 0, d |-> 0]
NoDate == [k |-> "None", y |-> 0, m |-> 0, d |-> 0]

\* The dates a user may pick.
Dates == {DateOf(2024, 1, 5), DateOf(2024, 11, 20)}

Pad2(n) == IF n < 10 THEN "0" \o ToString(n) ELSE ToString(n)

\* date.strftime("%Y-%m-%d")
StrfDate(date) == ToString(date.y) \o "-" \o Pad2(date.m) \o "-" \o Pad2(date.d)

\* Line 71: strftime when the value has one, str(date) otherwise.
DateStr(date) == IF date.k = "date" THEN StrfDate(date) ELSE "None"

\* NaT has a strftime attribute, and calling it raises ValueError.
DateRaises(date) == date.k = "NaT"

\* pd.to_datetime(cell, errors='coerce').dt.date
ToDate(cell) ==
    IF \E d \in Dates : StrfDate(d) = cell
    THEN CHOOSE d \in Dates : StrfDate(d) = cell
    ELSE NaT

\* Values of the grid's id column after pd.to_numeric(errors='coerce'): int64
\* when every cell is a number, float64 (NaN for the others) when one is not.
IntId(n) == [k |-> "int", n |-> n]
FloatId(n) == [k |-> "float", n |-> n]
NaN == [k |-> "nan", n |-> 0]

MaxId == MaxNow \div TicksPerSecond

IsIntText(cell) == \E n \in 0..MaxId : ToString(n) = cell

IntOfText(cell) == CHOOSE n \in 0..MaxId : ToString(n) = cell

ToNumeric(cell, allNumeric) ==
    IF ~IsIntText(cell) THEN NaN
    ELSE IF allNumeric THEN IntId(IntOfText(cell)) ELSE FloatId(IntOfText(cell))

\* str(target_id)
StrId(id) ==
    CASE id.k = "int" -> ToString(id.n)
      [] id.k = "float" -> ToString(id.n) \o ".0"
      [] OTHER -> "nan"

\* Values of the grid's note column: text, or None for a cleared cell.
Text(v) == [k |-> "str", v |-> v]
NoNote == [k |-> "None", v |-> ""]

\* Line 208: str(row['note']) if pd.notna(row.get('note')) else ""
NoteVal(note) == IF note.k = "str" THEN note.v ELSE ""

\* get_all_data: one record per data row, date and id columns coerced.
GetAllData(ws) ==
    LET allNumeric == \A i \in 2..Len(ws) : IsIntText(ws[i][1])
    IN [i \in 1..(Len(ws) - 1) |->
          [id |-> ToNumeric(ws[i + 1][1], allNumeric),
           date |-> ToDate(ws[i + 1][2]),
           item_name |-> ws[i + 1][3],
           item_id |-> ws[i + 1][4],
           keeper |-> ws[i + 1][5],
           chip_code |-> ws[i + 1][6],
           location |-> ws[i + 1][7],
           note |-> Text(ws[i + 1][8])]]

(***************************************************************************)
(* Items store: the spreadsheet calls                                      *)
(***************************************************************************)
\* Mutant of Find: a lookup that answers the last row when nothing matches.
FindOrLast(ws, text) ==
    IF \E i \in 1..Len(ws) : ws[i][1] = text
    THEN CHOOSE i \in 1..Len(ws) : ws[i][1] = text /\ \A j \in 1..(i - 1) : ws[j][1] # text
    ELSE Len(ws)

\* ws.find(text, in_column=1): the row number of the first cell of column A
\* that equals text, 0 for None.
Find(ws, text) ==
    IF \E i \in 1..Len(ws) : ws[i][1] = text
    THEN CHOOSE i \in 1..Len(ws) : ws[i][1] = text /\ \A j \in 1..(i - 1) : ws[j][1] # text
    ELSE 0

\* Mutant of UpdateRange: the range starts at column A instead of column B.
UpdateRangeFromA(ws, row_num, vals) ==
    LET padded == [i \in 1..(IF row_num > Len(ws) THEN row_num ELSE Len(ws)) |->
                      IF i <= Len(ws) THEN ws[i] ELSE BlankRow]
    IN [padded EXCEPT ![row_num] = vals \o <<padded[row_num][NumCols]>>]

\* ws.update("B{row_num}:H{row_num}", [vals]): columns B..H of that row are
\* overwritten; a row number below the data leaves column A (and the rows in
\* between) blank.
UpdateRange(ws, row_num, vals) ==
    LET padded == [i \in 1..(IF row_num > Len(ws) THEN row_num ELSE Len(ws)) |->
                      IF i <= Len(ws) THEN ws[i] ELSE BlankRow]
    IN [padded EXCEPT ![row_num] = <<padded[row_num][1]>> \o vals]

\* ws.delete_rows(row_num): the rows below move up; a row number below the
\* data removes an empty row.
DeleteRows(ws, row_num) ==
    IF row_num > Len(ws) THEN ws
    ELSE [i \in 1..(Len(ws) - 1) |-> IF i < row_num THEN ws[i] ELSE ws[i + 1]]

\* ws.append_row(row)
AppendRow(ws, row) == Append(ws, row)

\* Mutant of NewId: the clock reading is not truncated to whole seconds.
NewIdUntruncated(t) == t

\* Line 59: int(datetime.now().timestamp())
NewId(t) == t \div TicksPerSecond

\* Line 129: f"VDEV-{input_id_num}"
FullId(input_id_num) == "VDEV-" \o input_id_num

\* Mutant of NewRow: keeper and chip_code are written in each other's column.
NewRowSwapped(t, inp) ==
    <<ToString(NewId(t)), DateStr(inp.date), inp.name, FullId(inp.num),
      inp.chip, inp.keeper, inp.loc, inp.note>>

\* Line 62: the row add_data appends.
NewRow(t, inp) ==
    <<ToString(NewId(t)), DateStr(inp.date), inp.name, FullId(inp.num),
      inp.keeper, inp.chip, inp.loc, inp.note>>

\* Line 73: the seven values update_data writes for a grid row.
RowValues(row) ==
    <<DateStr(row.date), row.item_name, row.item_id, row.keeper,
      row.chip_code, row.location, NoteVal(row.note)>>


(***************************************************************************)
(* Items store: the page's handlers                                        *)
(***************************************************************************)
\* What the user may enter in the sidebar form.
SubmitInputs ==
    {[date |-> DateOf(2024, 1, 5), name |-> "n1", num |-> "1001", keeper |-> "k1",
      chip |-> "c1", loc |-> "l1", note |-> ""],
     [date |-> DateOf(2024, 11, 20), name |-> "n2", num |-> "1002", keeper |-> "k2",
      chip |-> "c2", loc |-> "l2", note |-> "t2"],
     [date |-> DateOf(2024, 1, 5), name |-> "", num |-> "1001", keeper |-> "k1",
      chip |-> "c1", loc |-> "l1", note |-> ""],
     [date |-> DateOf(2024, 1, 5), name |-> "n1", num |-> "", keeper |-> "k1",
      chip |-> "c1", loc |-> "l1", note |-> ""]}

\* What the user may change in a grid row before pressing Save: a new keeper
\* and the note cell cleared.
EditRow(row) == [row EXCEPT !.keeper = "k9", !.note = NoNote]

\* The edits of one Save: none (0), or those of one grid row.
Edits(n) == 0..n

\* Lines 177-195: edited_df is the loaded table with a "Delete?" column, the
\* boxes in flags ticked and the edit applied.
EditedDf(df, flags, edit) ==
    [i \in 1..Len(df) |->
        [del |-> i \in flags,
         rec |-> IF i = edit THEN EditRow(df[i]) ELSE df[i]]]

Ready(s) == pc[s] = "idle"

InLoop(s) == pc[s] \in {"loop", "upd", "del"}

\* Whether the step that handles grid row idx[s] without failing ends the loop.
AtLastRow(s) == idx[s] = Len(grid[s])

\* The record kept of an items-store step: the sheet before it, the row
\* number and the arguments of the call and, when the step ends a Save (ended
\* is "ok" or "error"), the grid and the sheet the Save started from.
Done(op, s, row, target, arg, ended) ==
    [op |-> op, s |-> s, pre |-> items, row |-> row, target |-> target, arg |-> arg,
     i |-> idx[s], t |-> IF op = "add" THEN now ELSE 0, ended |-> ended,
     grid |-> IF ended = "no" THEN <<>> ELSE grid[s],
     base |-> IF ended = "no" THEN <<>> ELSE base[s]]

Ended(s) == IF AtLastRow(s) THEN "ok" ELSE "no"

Tick ==
    /\ now < MaxNow
    /\ now' = now + 1
    /\ UNCHANGED <<items, pc, grid, idx, rownum, wake, base, last>>
    /\ UNCHANGED optVars

\* time.sleep(1) returns and st.rerun() starts a fresh run of the page.
Wake(s) ==
    /\ pc[s] = "sleep"
    /\ now >= wake[s]
    /\ pc' = [pc EXCEPT ![s] = "idle"]
    /\ grid' = [grid EXCEPT ![s] = <<>>]
    /\ idx' = [idx EXCEPT ![s] = 0]
    /\ base' = [base EXCEPT ![s] = <<>>]
    /\ wake' = [wake EXCEPT ![s] = 0]
    /\ UNCHANGED <<items, now, rownum, last>>
    /\ UNCHANGED optVars

\* Lines 126-136: Submit. add_data appends one row, then the page sleeps a
\* second and reruns; a missing name or number only shows an error.
Submit(s, inp) ==
    /\ Ready(s)
    /\ Len(items) <= MaxRows
    /\ IF inp.name # "" /\ inp.num # ""
       THEN /\ items' = AppendRow(items, NewRow(now, inp))
            /\ last' = Done("add", s, 0, "", inp, "no")
            /\ pc' = [pc EXCEPT ![s] = "sleep"]
            /\ wake' = [wake EXCEPT ![s] = now + TicksPerSecond]
            /\ grid' = [grid EXCEPT ![s] = <<>>]
            /\ idx' = [idx EXCEPT ![s] = 0]
            /\ base' = [base EXCEPT ![s] = <<>>]
            /\ UNCHANGED <<now, rownum>>
       ELSE UNCHANGED itemVars
    /\ UNCHANGED optVars

\* Lines 165-169: get_all_data raises; the page shows the error and stops.
RenderFails(s) ==
    /\ Ready(s)
    /\ pc' = [pc EXCEPT ![s] = "idle"]
    /\ grid' = [grid EXCEPT ![s] = <<>>]
    /\ idx' = [idx EXCEPT ![s] = 0]
    /\ base' = [base EXCEPT ![s] = <<>>]
    /\ last' = Done("stopped", s, 0, "", <<>>, "no")
    /\ UNCHANGED <<items, now, rownum, wake>>
    /\ UNCHANGED optVars

\* Lines 165-202: the run in which Save Changes is pressed. get_all_data
\* loads the table, the editor returns it with the user's changes, and the
\* loop starts at the first grid row. An empty table shows no grid.
SaveClick(s) ==
    /\ Ready(s)
    /\ LET df == GetAllData(items)
       IN /\ Len(df) > 0
          /\ \E flags \in SUBSET (1..Len(df)), edit \in Edits(Len(df)) :
                grid' = [grid EXCEPT ![s] = EditedDf(df, flags, edit)]
    /\ idx' = [idx EXCEPT ![s] = 1]
    /\ base' = [base EXCEPT ![s] = items]
    /\ pc' = [pc EXCEPT ![s] = "loop"]
    /\ last' = Done("render", s, 0, "", <<>>, "no")
    /\ UNCHANGED <<items, now, rownum, wake>>
    /\ UNCHANGED optVars

\* The loop moves to the next grid row; after the last one the page shows
\* the toast, sleeps a second and reruns (lines 216-218).
Advance(s) ==
    IF AtLastRow(s)
    THEN /\ pc' = [pc EXCEPT ![s] = "sleep"]
         /\ wake' = [wake EXCEPT ![s] = now + TicksPerSecond]
         /\ idx' = [idx EXCEPT ![s] = 0]
         /\ grid' = [grid EXCEPT ![s] = <<>>]
         /\ base' = [base EXCEPT ![s] = <<>>]
    ELSE /\ pc' = [pc EXCEPT ![s] = "loop"]
         /\ idx' = [idx EXCEPT ![s] = idx[s] + 1]
         /\ UNCHANGED <<wake, grid, base>>

\* Mutant of Fail: the exception is swallowed inside the loop, which goes on
\* with the next grid row.
FailAndContinue(s) ==
    /\ Advance(s)
    /\ rownum' = [rownum EXCEPT ![s] = 0]
    /\ last' = Done("failed", s, 0, "", <<>>, "error")
    /\ UNCHANGED items

\* Lines 219-220: the exception leaves the loop and st.error shows it; the
\* run ends there.
Fail(s) ==
    /\ pc' = [pc EXCEPT ![s] = "idle"]
    /\ rownum' = [rownum EXCEPT ![s] = 0]
    /\ idx' = [idx EXCEPT ![s] = 0]
    /\ grid' = [grid EXCEPT ![s] = <<>>]
    /\ base' = [base EXCEPT ![s] = <<>>]
    /\ last' = Done("failed", s, 0, "", <<>>, "error")
    /\ UNCHANGED <<items, wake>>

\* Lines 203-205 and 210, then line 67 or 77: ws.find for the grid row the
\* loop is at. No cell: the call returns and the loop goes on. A cell:
\* the row number is kept for the write or the delete that follows; for an
\* update, line 71 formats the date first, which raises on NaT.
LookupRow(s, fails) ==
    /\ pc[s] = "loop"
    /\ LET row == grid[s][idx[s]]
           target == StrId(row.rec.id)
           found == Find(items, target)
       IN IF fails
          THEN Fail(s)
          ELSE IF found = 0
          THEN /\ Advance(s)
               /\ last' = Done(IF row.del THEN "delete_miss" ELSE "update_miss",
                               s, 0, target, row, Ended(s))
               /\ UNCHANGED <<items, rownum>>
          ELSE IF ~row.del /\ DateRaises(row.rec.date)
          THEN Fail(s)
          ELSE /\ pc' = [pc EXCEPT ![s] = IF row.del THEN "del" ELSE "upd"]
               /\ rownum' = [rownum EXCEPT ![s] = found]
               /\ last' = Done("found", s, found, target, row, "no")
               /\ UNCHANGED <<items, idx, wake, grid, base>>
    /\ UNCHANGED now
    /\ UNCHANGED optVars

\* Mutant of WriteRow: the row is looked up again when the write is made.
WriteRowFresh(s, fails) ==
    /\ pc[s] = "upd"
    /\ LET row == grid[s][idx[s]]
           target == StrId(row.rec.id)
       IN IF fails
          THEN Fail(s)
          ELSE /\ items' = IF Find(items, target) = 0 THEN items
                           ELSE UpdateRange(items, Find(items, target), RowValues(row.rec))
               /\ last' = Done("update", s, rownum[s], target, row, Ended(s))
               /\ rownum' = [rownum EXCEPT ![s] = 0]
               /\ Advance(s)
    /\ UNCHANGED now
    /\ UNCHANGED optVars

\* Line 73: ws.update at the remembered row number.
WriteRow(s, fails) ==
    /\ pc[s] = "upd"
    /\ LET row == grid[s][idx[s]]
           target == StrId(row.rec.id)
       IN IF fails
          THEN Fail(s)
          ELSE /\ items' = UpdateRange(items, rownum[s], RowValues(row.rec))
               /\ last' = Done("update", s, rownum[s], target, row, Ended(s))
               /\ rownum' = [rownum EXCEPT ![s] = 0]
               /\ Advance(s)
    /\ UNCHANGED now
    /\ UNCHANGED optVars

\* Line 79: ws.delete_rows at the remembered row number.
DeleteRow(s, fails) ==
    /\ pc[s] = "del"
    /\ LET row == grid[s][idx[s]]
           target == StrId(row.rec.id)
       IN IF fails
          THEN Fail(s)
          ELSE /\ items' = DeleteRows(items, rownum[s])
               /\ last' = Done("delete", s, rownum[s], target, row, Ended(s))
               /\ rownum' = [rownum EXCEPT ![s] = 0]
               /\ Advance(s)
    /\ UNCHANGED now
    /\ UNCHANGED optVars

\* Lines 202-215 run without failure and without another session: the sheet
\* after the calls for the first n grid rows.
RECURSIVE ApplyRows(_, _, _)
ApplyRows(ws, g, n) ==
    IF n = 0 THEN ws
    ELSE LET w == ApplyRows(ws, g, n - 1)
             found == Find(w, StrId(g[n].rec.id))
         IN IF found = 0 THEN w
            ELSE IF g[n].del THEN DeleteRows(w, found)
            ELSE UpdateRange(w, found, RowValues(g[n].rec))

ItemInit ==
    /\ items = <<Header>>
    /\ now = 0
    /\ pc = [s \in Sessions |-> "idle"]
    /\ grid = [s \in Sessions |-> <<>>]
    /\ idx = [s \in Sessions |-> 0]
    /\ rownum = [s \in Sessions |-> 0]
    /\ wake = [s \in Sessions |-> 0]
    /\ base = [s \in Sessions |-> <<>>]
    /\ last = [op |-> "none", s |-> "", pre |-> <<>>, row |-> 0, target |-> "",
               arg |-> <<>>, i |-> 0, t |-> 0, ended |-> "no", grid |-> <<>>,
               base |-> <<>>]

(***************************************************************************)
(* Specifications                                                          *)
(***************************************************************************)
Init == OptInit /\ ItemInit

NextOptions ==
    \/ \E s \in Sessions, n \in OptSheets, ok \in BOOLEAN : LoadOptions(s, n, ok)
    \/ \E s \in Sessions, n \in OptSheets : \E value \in OptInputs(n) : AddOptionCheck(s, n, value)
    \/ \E s \in Sessions : AddOptionAppend(s)
    \/ \E s \in Sessions, ok \in BOOLEAN : ReloadOptions(s, ok)

Next ==
    \/ Tick
    \/ \E s \in Sessions : Wake(s)
    \/ \E s \in Sessions, inp \in SubmitInputs : Submit(s, inp)
    \/ \E s \in Sessions : RenderFails(s)
    \/ \E s \in Sessions : SaveClick(s)
    \/ \E s \in Sessions, fails \in BOOLEAN : LookupRow(s, fails)
    \/ \E s \in Sessions, fails \in BOOLEAN : WriteRow(s, fails)
    \/ \E s \in Sessions, fails \in BOOLEAN : DeleteRow(s, fails)

\* No other session is inside its Save loop.
Alone(s) == \A t \in Sessions \ {s} : ~InLoop(t)

NextSerial ==
    \/ Tick
    \/ \E s \in Sessions : Alone(s) /\ Wake(s)
    \/ \E s \in Sessions, inp \in SubmitInputs : Alone(s) /\ Submit(s, inp)
    \/ \E s \in Sessions : Alone(s) /\ RenderFails(s)
    \/ \E s \in Sessions : Alone(s) /\ SaveClick(s)
    \/ \E s \in Sessions, fails \in BOOLEAN : Alone(s) /\ LookupRow(s, fails)
    \/ \E s \in Sessions, fails \in BOOLEAN : Alone(s) /\ WriteRow(s, fails)
    \/ \E s \in Sessions, fails \in BOOLEAN : Alone(s) /\ DeleteRow(s, fails)

SpecOptions == Init /\ [][NextOptions]_vars

Spec == Init /\ [][Next]_vars

SpecSerial == Init /\ [][NextSerial]_vars

(***************************************************************************)
(* Properties                                                              *)
(***************************************************************************)
IsMiss(op) == op \in {"update_miss", "delete_miss"}

NoRowWithId(ws, text) == \A i \in 1..Len(ws) : ws[i][1] # text

\* The grid of the Save the latest step belongs to.
RunGrid == IF last.ended = "no" THEN grid[last.s] ELSE last.grid

\* C1: update_data changes only the non-id columns of the row whose id
\* column equals the given id; every other row, the header row included, is
\* the same before and after the call (no other session between its steps).
C1_UpdateChangesOnlyTargetRow ==
    last.op = "update" =>
        \E r \in 2..Len(last.pre) :
            /\ last.pre[r][1] = last.target
            /\ Len(items) = Len(last.pre)
            /\ \A i \in 1..Len(last.pre) : i # r => items[i] = last.pre[i]
            /\ items[1] = Header
            /\ items[r][1] = last.pre[r][1]
            /\ \A c \in 2..NumCols : items[r][c] = RowValues(last.arg.rec)[c - 1]

\* C1 witness: an update that changed its row while another data row exists.
C1_Witness ==
    /\ last.op = "update"
    /\ items # last.pre
    /\ Len(items) >= 3

\* C2: with a row of the given id in the sheet, delete_data removes exactly
\* one row and keeps all the others, and a second delete_data with the same
\* id right after it leaves the sheet unchanged.
C2_DeleteOnceThenNoop ==
    /\ last.op = "delete" =>
          /\ Len(items) = Len(last.pre) - 1
          /\ \E r \in 2..Len(last.pre) :
                /\ last.pre[r][1] = last.target
                /\ \A i \in 1..Len(items) :
                      items[i] = IF i < r THEN last.pre[i] ELSE last.pre[i + 1]
    /\ (/\ last.op \in {"delete", "delete_miss"}
        /\ last.i > 1
        /\ RunGrid[last.i - 1].del
        /\ StrId(RunGrid[last.i - 1].rec.id) = last.target)
       => items = last.pre

\* C3: add_new_option answers True for a value that get_options does not
\* list, and the value is listed afterwards; it answers False for a listed
\* value and leaves the list as it was.
C3_AddNewOption ==
    /\ olast.op = "check" =>
          LET listed == InSeq(olast.value, GetOptions(olast.pre, TRUE))
          IN /\ ~listed => olast.ret = "pending"
             /\ listed => (olast.ret = "False" /\ opts[olast.sheet] = olast.pre)
    /\ olast.op = "append" =>
          /\ olast.ret = "True"
          /\ InSeq(olast.value, GetOptions(opts[olast.sheet], TRUE))

\* C4: add_data appends one row after all existing rows; get_all_data then
\* returns one more row, the new one last with the given values in the
\* column order id, date, item_name, item_id, keeper, chip_code, location,
\* note, and every earlier row unchanged.
C4_AddAppendsOneRow ==
    last.op = "add" =>
        LET df == GetAllData(items)
            df0 == GetAllData(last.pre)
            inp == last.arg
            n == Len(df)
            cells == items[Len(items)]
        IN /\ n = Len(df0) + 1
           /\ \A i \in 1..Len(df0) : df[i] = df0[i] /\ items[i + 1] = last.pre[i + 1]
           /\ items[1] = Header
           /\ df[n].id.k = "int"
           /\ df[n].date = inp.date
           /\ df[n].item_name = inp.name
           /\ df[n].item_id = "VDEV-" \o inp.num
           /\ df[n].keeper = inp.keeper
           /\ df[n].chip_code = inp.chip
           /\ df[n].location = inp.loc
           /\ df[n].note = Text(inp.note)
           /\ cells[2] \in {"2024-01-05", "2024-11-20"}
           /\ <<cells[3], cells[4], cells[5], cells[6], cells[7], cells[8]>>
                = <<inp.name, "VDEV-" \o inp.num, inp.keeper, inp.chip, inp.loc, inp.note>>

\* C4 witness: a row was added to a sheet that already held a data row.
C4_Witness ==
    /\ last.op = "add"
    /\ Len(last.pre) >= 2
    /\ Len(items) = Len(last.pre) + 1

\* C5: when no row carries the given id, update_data and delete_data return
\* without raising and leave the whole sheet unchanged.
C5_MissingRowIsSilentNoop ==
    (/\ last.op \in {"found", "update_miss", "delete_miss"}
     /\ NoRowWithId(last.pre, last.target))
    => /\ IsMiss(last.op)
       /\ last.ended # "error"
       /\ items = last.pre

\* C5 witness: an update_data call found no row, in a sheet with data rows.
C5_Witness ==
    /\ last.op = "update_miss"
    /\ NoRowWithId(items, last.target)
    /\ Len(items) >= 2

\* C6: add_new_option holds no lock between its check and its append: when
\* two sessions pass the check for the same new value before either
\* appends, both return True and the sheet holds the value twice.
C6_ConcurrentAddsDuplicate ==
    \A s, t \in Sessions :
        (s # t /\ ocall[s].sheet = ocall[t].sheet /\ ocall[s].value = ocall[t].value) =>
            LET stored == CountOf(ocall[s].value, opts[ocall[s].sheet])
            IN /\ (ocall[s].ret = "pending" /\ ocall[t].ret = "pending") => stored = 0
               /\ (ocall[s].ret = "True" /\ ocall[t].ret = "pending") => stored = 1
               /\ (ocall[s].ret = "True" /\ ocall[t].ret = "True") => stored = 2

\* C6 witness: both sessions returned True for the same value.
C6_Witness ==
    /\ ocall["s1"].ret = "True"
    /\ ocall["s2"].ret = "True"
    /\ ocall["s1"].sheet = ocall["s2"].sheet
    /\ ocall["s1"].value = ocall["s2"].value
    /\ CountOf(ocall["s1"].value, opts[ocall["s1"].sheet]) = 2

\* C7: update_data writes columns B..H at the row number its lookup
\* remembered, whatever that row holds by then: rows another session
\* inserted or deleted in between are not taken into account.
C7_WriteAtRememberedRow ==
    last.op = "update" =>
        LET r == last.row
            n == IF r > Len(last.pre) THEN r ELSE Len(last.pre)
            before == [i \in 1..n |-> IF i <= Len(last.pre) THEN last.pre[i] ELSE BlankRow]
        IN /\ r >= 2
           /\ Len(items) = n
           /\ \A i \in 1..n : i # r => items[i] = before[i]
           /\ items[r][1] = before[r][1]
           /\ \A c \in 2..NumCols : items[r][c] = RowValues(last.arg.rec)[c - 1]

\* C7 witness: the write landed on a row that carries another id.
C7_Witness ==
    /\ last.op = "update"
    /\ last.row <= Len(last.pre)
    /\ last.pre[last.row][1] \notin {"", last.target}

\* C8: the Save loop has no rollback: when the call for grid row k fails,
\* the sheet holds the effects of the calls for rows 1..k-1, the failed call
\* changed nothing, no later call is issued and the error is shown.
C8_NoRollback ==
    last.ended = "error" =>
        /\ last.op = "failed"
        /\ items = ApplyRows(last.base, last.grid, last.i - 1)
        /\ items = last.pre
        /\ pc[last.s] = "idle"
        /\ rownum[last.s] = 0

\* C8 witness: a Save failed after an earlier row's call had changed the sheet.
C8_Witness ==
    /\ last.ended = "error"
    /\ last.i >= 2
    /\ items # last.base

\* C9: a new row's id is the clock truncated to whole seconds, so two
\* add_data calls in the same second store the same id; update_data and
\* delete_data with that id act on the first such row only.
C9_IdIsSecondsFirstRowWins ==
    /\ last.op = "add" =>
          items[Len(items)][1] = ToString(last.t \div TicksPerSecond)
    /\ last.op \in {"update", "delete"} =>
          LET r == last.row
          IN /\ r \in 2..Len(last.pre)
             /\ last.pre[r][1] = last.target
             /\ \A j \in 1..(r - 1) : last.pre[j][1] # last.target
             /\ \A j \in 1..(r - 1) : items[j] = last.pre[j]
             /\ \A j \in (r + 1)..Len(last.pre) :
                   IF last.op = "update" THEN items[j] = last.pre[j]
                   ELSE items[j - 1] = last.pre[j]

\* C9 witness: two rows share an id and an update changed the first only.
C9_Witness ==
    /\ last.op = "update"
    /\ items # last.pre
    /\ \E j \in (last.row + 1)..Len(items) :
          /\ last.pre[j][1] = last.target
          /\ items[j] = last.pre[j]

\* The sheet a Save is expected to leave: the rows it started from, those
\* ticked for deletion removed and the others carrying the grid's values.
RECURSIVE ExpectedRows(_, _, _)
ExpectedRows(ws, g, n) ==
    IF n = 0 THEN <<ws[1]>>
    ELSE IF g[n].del THEN ExpectedRows(ws, g, n - 1)
    ELSE Append(ExpectedRows(ws, g, n - 1), <<ws[n + 1][1]>> \o RowValues(g[n].rec))

\* C10: after a Save that ends without failure and without another session
\* in between, every grid row not ticked for deletion holds the grid's
\* values in its non-id columns and every ticked row is gone.
C10_SaveWritesBackGrid ==
    last.ended = "ok" => items = ExpectedRows(last.base, last.grid, Len(last.grid))

====
